---- MODULE Spec2Model ----
(***************************************************************************)
(* TypedQueue (bullmq-zod): a facade over a BullMQ Queue/Worker pair that  *)
(* parses job payloads with a per-job-name zod schema before enqueueing    *)
(* them and routes delivered jobs to per-name handlers.                    *)
(*                                                                         *)
(* The BullMQ engine and zod are collaborators: the model keeps the calls  *)
(* the facade makes on them (Queue.add, new Worker, Worker.run,            *)
(* Worker.close, Queue.close, schema.parse) and the events they send back  *)
(* (a delivered job, a settled promise).                                   *)
(***************************************************************************)
EXTENDS Integers, Sequences, FiniteSets, TLC

\* ---------------------------------------------------------------- bounds
MaxAdds == 1          \* Queue.add calls recorded per queue handle
MaxDeliveries == 1    \* jobs the engine delivers to processors
MaxCloses == 1        \* close() calls

\* ------------------------------------------------------- input alphabets
FacadeIds == {1}
QueueNames == {"test-queue"}
Connections == {"connA"}
HandlerFns == {"h1", "h2"}
JobOptionValues == {"undefined", "delayed"}

\* An options object is a finite map from option keys to values;
\* `undefined` spreads to nothing, so it is the empty map.
NoOptions == [k \in {} |-> ""]
QueueOptionValues == {NoOptions, [connection |-> "connB"]}
WorkerOptionValues ==
    {NoOptions, [connection |-> "connB"], [autorun |-> TRUE]}

\* { ...defaults, ...overrides }: later keys win.
Spread(defaults, overrides) ==
    [k \in DOMAIN defaults \cup DOMAIN overrides |->
        IF k \in DOMAIN overrides THEN overrides[k] ELSE defaults[k]]

\* ---------------------------------------------------------------- zod
\* A z.object schema is kept as the one field it constrains and the kind of
\* check on it.  parse() fails when the field is missing or fails the check;
\* on success it returns a new object holding only the schema's keys
\* (unknown keys are stripped).
Emails == {"test@example.com"}
testSchemas ==
    [sendEmail    |-> [field |-> "to",    check |-> "email"],
     processImage |-> [field |-> "width", check |-> "positive"]]

Payloads ==
    {[to |-> "test@example.com"],
     [to |-> "test@example.com", cc |-> "x"],
     [to |-> "invalid-email"],
     [width |-> 100]}

FieldOk(check, v) ==
    CASE check = "email"    -> v \in Emails
      [] check = "positive" -> v > 0

ParseOk(schema, payload) ==
    /\ schema.field \in DOMAIN payload
    /\ FieldOk(schema.check, payload[schema.field])

ParseData(schema, payload) ==
    [k \in {schema.field} |-> payload[k]]

JobNames == {"sendEmail", "processImage", "unknownJob"}

\* Property names every JavaScript object inherits from Object.prototype:
\* schemas[name] finds a function there, not a schema.
ObjectPrototypeKeys == {"toString"}
AddJobNames == JobNames \cup ObjectPrototypeKeys

\* ---------------------------------------------------------------- state
VARIABLES
    connection,   \* facade -> the constructor's connection argument
    schemas,      \* facade -> the schema map
    handlers,     \* facade -> Map from job name to handler
    _queue,       \* facade -> its Queue handle (_queue)
    _worker,      \* facade -> 0 (null) or the index of its Worker handle (_worker)
    workers,      \* the Worker handles constructed so far, in order
    addCalls,     \* facade -> the Queue.add calls made on its queue handle
    dispatches,   \* the processor activations in flight, in delivery order
    closes,       \* the close() calls, in order
    last          \* the most recent call or engine event and its outcome

vars ==
    <<connection, schemas, handlers, _queue, _worker, workers, addCalls,
      dispatches, closes, last>>

Facades == DOMAIN _queue

\* new Map()
EmptyMap == [k \in {} |-> ""]

Outcome(f, op, name, status, error, message) ==
    [f |-> f, op |-> op, name |-> name, status |-> status,
     error |-> error, message |-> message]

Ok(f, op, name) == Outcome(f, op, name, "ok", "", "")

\* new Queue(queueName, { connection, ...queueOptions })
NewQueue(queueName, conn, queueOptions) ==
    [name |-> queueName,
     opts |-> Spread([connection |-> conn], queueOptions),
     state |-> "open",
     closeCalls |-> 0]

\* new TypedQueue(queueName, schemas, connection, queueOptions) for each facade
Construct(ids) ==
    /\ \E conn \in Connections, names \in [ids -> QueueNames],
          qopts \in [ids -> QueueOptionValues] :
          /\ connection = [f \in ids |-> conn]
          /\ _queue = [f \in ids |-> NewQueue(names[f], conn, qopts[f])]
    /\ schemas = [f \in ids |-> testSchemas]
    /\ handlers = [f \in ids |-> EmptyMap]
    /\ _worker = [f \in ids |-> 0]
    /\ workers = <<>>
    /\ addCalls = [f \in ids |-> <<>>]
    /\ dispatches = <<>>
    /\ closes = <<>>
    /\ last = Outcome(0, "new", "", "ok", "", "")

Init == Construct(FacadeIds)

\* ---------------------------------------------------------------- addJob
\* addJob that hands the payload to Queue.add before it looks at the result of
\* the validation.
AddJobEnqueueFirst(f, jobName, payload, jobOptions) ==
    /\ IF jobName \notin DOMAIN schemas[f]
       THEN /\ last' = Outcome(f, "addJob", jobName, "rejected", "TypeError", "")
            /\ UNCHANGED addCalls
       ELSE LET schema == schemas[f][jobName]
                valid == ParseOk(schema, payload) IN
            /\ Len(addCalls[f]) < MaxAdds
            /\ addCalls' = [addCalls EXCEPT ![f] = Append(@,
                   [name |-> jobName,
                    data |-> IF valid THEN ParseData(schema, payload) ELSE payload,
                    opts |-> jobOptions])]
            /\ last' = IF valid THEN Ok(f, "addJob", jobName)
                       ELSE Outcome(f, "addJob", jobName, "rejected", "ZodError", "")
    /\ UNCHANGED <<connection, schemas, handlers, _queue, _worker, workers,
                   dispatches, closes>>

\* addJob that validates the payload but enqueues the caller's object.
AddJobRaw(f, jobName, payload, jobOptions) ==
    /\ IF jobName \notin DOMAIN schemas[f]
       THEN /\ last' = Outcome(f, "addJob", jobName, "rejected", "TypeError", "")
            /\ UNCHANGED addCalls
       ELSE IF ~ParseOk(schemas[f][jobName], payload)
            THEN /\ last' = Outcome(f, "addJob", jobName, "rejected", "ZodError", "")
                 /\ UNCHANGED addCalls
            ELSE /\ Len(addCalls[f]) < MaxAdds
                 /\ addCalls' = [addCalls EXCEPT ![f] = Append(@,
                        [name |-> jobName, data |-> payload, opts |-> jobOptions])]
                 /\ last' = Ok(f, "addJob", jobName)
    /\ UNCHANGED <<connection, schemas, handlers, _queue, _worker, workers,
                   dispatches, closes>>

\* async addJob(jobName, payload, jobOptions).  Queue.add records the call and
\* resolves with the job; the engine's own failures are not the facade's.
AddJob(f, jobName, payload, jobOptions) ==
    /\ IF jobName \notin DOMAIN schemas[f]
       THEN \* schema is undefined, or an inherited function with no parse:
            \* evaluating schema.parse(payload) throws a TypeError
            /\ last' = Outcome(f, "addJob", jobName, "rejected", "TypeError",
                               IF jobName \in ObjectPrototypeKeys
                               THEN "schema.parse is not a function"
                               ELSE "Cannot read properties of undefined (reading 'parse')")
            /\ UNCHANGED addCalls
       ELSE LET schema == schemas[f][jobName] IN
            IF ~ParseOk(schema, payload)
            THEN /\ last' = Outcome(f, "addJob", jobName, "rejected", "ZodError", "")
                 /\ UNCHANGED addCalls
            ELSE /\ Len(addCalls[f]) < MaxAdds
                 /\ addCalls' = [addCalls EXCEPT ![f] = Append(@,
                        [name |-> jobName,
                         data |-> ParseData(schema, payload),
                         opts |-> jobOptions])]
                 /\ last' = Ok(f, "addJob", jobName)
    /\ UNCHANGED <<connection, schemas, handlers, _queue, _worker, workers,
                   dispatches, closes>>

\* registerHandler that keeps the handler a name already has.
RegisterHandlerKeepFirst(f, jobName, handler) ==
    /\ handlers' = [handlers EXCEPT ![f] = Spread([n \in {jobName} |-> handler], @)]
    /\ last' = Ok(f, "registerHandler", jobName)
    /\ UNCHANGED <<connection, schemas, _queue, _worker, workers, addCalls,
                   dispatches, closes>>

\* registerHandler that has no effect once the worker handle exists, as if the
\* processor had been given a copy of the Map.
RegisterHandlerUntilWorker(f, jobName, handler) ==
    /\ handlers' = IF _worker[f] # 0 THEN handlers
                   ELSE [handlers EXCEPT
                            ![f] = Spread(@, [n \in {jobName} |-> handler])]
    /\ last' = Ok(f, "registerHandler", jobName)
    /\ UNCHANGED <<connection, schemas, _queue, _worker, workers, addCalls,
                   dispatches, closes>>

\* registerHandler on a registry that all facades share, as a static Map would
\* be.
RegisterHandlerShared(f, jobName, handler) ==
    /\ handlers' = [g \in Facades |->
                       Spread(handlers[g], [n \in {jobName} |-> handler])]
    /\ last' = Ok(f, "registerHandler", jobName)
    /\ UNCHANGED <<connection, schemas, _queue, _worker, workers, addCalls,
                   dispatches, closes>>

\* ------------------------------------------------------- registerHandler
RegisterHandler(f, jobName, handler) ==
    /\ handlers' = [handlers EXCEPT ![f] = Spread(@, [n \in {jobName} |-> handler])]
    /\ last' = Ok(f, "registerHandler", jobName)
    /\ UNCHANGED <<connection, schemas, _queue, _worker, workers, addCalls,
                   dispatches, closes>>

\* ------------------------------------------------------------ initWorker
\* new Worker(name, processor, opts): BullMQ starts the worker at once when
\* opts.autorun is set.  The processor is the callback created by facade f.
NewWorker(name, f, opts) ==
    [name |-> name, processor |-> f, opts |-> opts,
     running |-> opts.autorun, state |-> "open", closeCalls |-> 0]

\* initWorker that spreads the caller's options first, so its own defaults win.
InitWorkerDefaultsLast(f, workerOptions) ==
    /\ IF _worker[f] # 0
       THEN /\ last' = Outcome(f, "initWorker", "", "thrown", "Error",
                               "Worker already started")
            /\ UNCHANGED <<_worker, workers>>
       ELSE /\ workers' = Append(workers,
                    NewWorker(_queue[f].name, f,
                              Spread(workerOptions,
                                     [autorun |-> FALSE, connection |-> connection[f]])))
            /\ _worker' = [_worker EXCEPT ![f] = Len(workers')]
            /\ last' = Ok(f, "initWorker", "")
    /\ UNCHANGED <<connection, schemas, handlers, _queue, addCalls,
                   dispatches, closes>>

\* initWorker without `autorun: false` among its defaults: the engine's own
\* default, autorun enabled, applies unless the caller's options say otherwise.
InitWorkerEngineDefault(f, workerOptions) ==
    /\ IF _worker[f] # 0
       THEN /\ last' = Outcome(f, "initWorker", "", "thrown", "Error",
                               "Worker already started")
            /\ UNCHANGED <<_worker, workers>>
       ELSE /\ workers' = Append(workers,
                    NewWorker(_queue[f].name, f,
                              Spread([autorun |-> TRUE, connection |-> connection[f]],
                                     workerOptions)))
            /\ _worker' = [_worker EXCEPT ![f] = Len(workers')]
            /\ last' = Ok(f, "initWorker", "")
    /\ UNCHANGED <<connection, schemas, handlers, _queue, addCalls,
                   dispatches, closes>>

InitWorker(f, workerOptions) ==
    /\ IF _worker[f] # 0
       THEN /\ last' = Outcome(f, "initWorker", "", "thrown", "Error",
                               "Worker already started")
            /\ UNCHANGED <<_worker, workers>>
       ELSE /\ workers' = Append(workers,
                    NewWorker(_queue[f].name, f,
                              Spread([autorun |-> FALSE, connection |-> connection[f]],
                                     workerOptions)))
            /\ _worker' = [_worker EXCEPT ![f] = Len(workers')]
            /\ last' = Ok(f, "initWorker", "")
    /\ UNCHANGED <<connection, schemas, handlers, _queue, addCalls,
                   dispatches, closes>>

\* startWorker that creates the worker handle itself when there is none.
StartWorkerCreating(f) ==
    /\ IF _worker[f] = 0
       THEN /\ workers' = Append(workers,
                    [NewWorker(_queue[f].name, f,
                               [autorun |-> FALSE, connection |-> connection[f]])
                     EXCEPT !.running = TRUE])
            /\ _worker' = [_worker EXCEPT ![f] = Len(workers')]
            /\ last' = Outcome(f, "startWorker", "", "pending", "", "")
       ELSE LET w == _worker[f] IN
            /\ UNCHANGED _worker
            /\ IF workers[w].running
               THEN /\ last' = Outcome(f, "startWorker", "", "rejected", "Error",
                                       "Worker is already running.")
                    /\ UNCHANGED workers
               ELSE /\ workers' = [workers EXCEPT ![w].running = TRUE]
                    /\ last' = Outcome(f, "startWorker", "", "pending", "", "")
    /\ UNCHANGED <<connection, schemas, handlers, _queue, addCalls,
                   dispatches, closes>>

\* ----------------------------------------------------------- startWorker
\* Worker.run() refuses a worker that is already running; otherwise it starts
\* the worker's loop and its promise stays pending while the loop runs.
StartWorker(f) ==
    /\ IF _worker[f] = 0
       THEN /\ last' = Outcome(f, "startWorker", "", "rejected", "Error",
                               "Worker not initialized")
            /\ UNCHANGED workers
       ELSE LET w == _worker[f] IN
            IF workers[w].running
            THEN /\ last' = Outcome(f, "startWorker", "", "rejected", "Error",
                                    "Worker is already running.")
                 /\ UNCHANGED workers
            ELSE /\ workers' = [workers EXCEPT ![w].running = TRUE]
                 /\ last' = Outcome(f, "startWorker", "", "pending", "", "")
    /\ UNCHANGED <<connection, schemas, handlers, _queue, _worker, addCalls,
                   dispatches, closes>>

\* --------------------------------------------------- the processor callback
\* The engine hands a job of the queue to the processor of a running worker.
\* Jobs come from any producer of the queue, so name and data are arbitrary.
Jobs ==
    {[name |-> "sendEmail",    data |-> [to |-> "test@example.com"]],
     [name |-> "sendEmail",    data |-> [to |-> "invalid-email"]],
     [name |-> "processImage", data |-> [width |-> 100]],
     [name |-> "unknownJob",   data |-> [to |-> "test@example.com"]]}

NoHandlerMessage(name) == "No handler registered for job type: " \o name

\* A processor without the `if (!handler)` check: it calls what the Map gave.
ProcessorNoCheck(f, w, job) ==
    IF job.name \notin DOMAIN handlers[f]
    THEN /\ last' = Outcome(f, "processor", job.name, "rejected", "TypeError",
                            "handler is not a function")
         /\ UNCHANGED dispatches
    ELSE LET handler == handlers[f][job.name] IN
         /\ dispatches' = Append(dispatches,
                [worker |-> w, job |-> job,
                 calls |-> <<[handler |-> handler, job |-> job]>>,
                 promise |-> "pending"])
         /\ last' = Outcome(f, "processor", job.name, "pending", "", "")

\* A processor that takes a handler from the Map without using the job's
\* name as the key.
ProcessorAnyHandler(f, w, job) ==
    IF job.name \notin DOMAIN handlers[f]
    THEN /\ last' = Outcome(f, "processor", job.name, "rejected", "Error",
                            NoHandlerMessage(job.name))
         /\ UNCHANGED dispatches
    ELSE LET handler == handlers[f][CHOOSE n \in DOMAIN handlers[f] : TRUE] IN
         /\ dispatches' = Append(dispatches,
                [worker |-> w, job |-> job,
                 calls |-> <<[handler |-> handler, job |-> job]>>,
                 promise |-> "pending"])
         /\ last' = Outcome(f, "processor", job.name, "pending", "", "")

\* The processor up to its first await.  A dispatch is one activation of the
\* processor: the job, the handler calls it has made, and the state of the
\* promise it awaits.
Processor(f, w, job) ==
    IF job.name \notin DOMAIN handlers[f]
    THEN /\ last' = Outcome(f, "processor", job.name, "rejected", "Error",
                            NoHandlerMessage(job.name))
         /\ UNCHANGED dispatches
    ELSE LET handler == handlers[f][job.name] IN
         /\ dispatches' = Append(dispatches,
                [worker |-> w, job |-> job,
                 calls |-> <<[handler |-> handler, job |-> job]>>,
                 promise |-> "pending"])
         /\ last' = Outcome(f, "processor", job.name, "pending", "", "")

Deliver(w, job) ==
    /\ w \in 1..Len(workers)
    /\ workers[w].running
    /\ workers[w].state = "open"
    /\ Len(dispatches) < MaxDeliveries
    /\ Processor(workers[w].processor, w, job)
    /\ UNCHANGED <<connection, schemas, handlers, _queue, _worker, workers,
                   addCalls, closes>>

\* The promise returned by the handler settles.
HandlerSettles(d, fulfilled) ==
    /\ d \in 1..Len(dispatches)
    /\ dispatches[d].promise = "pending"
    /\ dispatches' = [dispatches EXCEPT
            ![d].promise = IF fulfilled THEN "fulfilled" ELSE "rejected"]
    /\ UNCHANGED <<connection, schemas, handlers, _queue, _worker, workers,
                   addCalls, closes, last>>

Remove(seq, i) == SubSeq(seq, 1, i - 1) \o SubSeq(seq, i + 1, Len(seq))

\* A processor that catches what the handler throws and returns normally.
ProcessorResumesSwallowing(d) ==
    /\ d \in 1..Len(dispatches)
    /\ dispatches[d].promise # "pending"
    /\ last' = Ok(workers[dispatches[d].worker].processor, "processor",
                  dispatches[d].job.name)
    /\ dispatches' = Remove(dispatches, d)
    /\ UNCHANGED <<connection, schemas, handlers, _queue, _worker, workers,
                   addCalls, closes>>

\* A processor that calls the handler without awaiting it: it returns at once,
\* whatever the state of the handler's promise.
ProcessorResumesWithoutAwait(d) ==
    /\ d \in 1..Len(dispatches)
    /\ last' = Ok(workers[dispatches[d].worker].processor, "processor",
                  dispatches[d].job.name)
    /\ dispatches' = Remove(dispatches, d)
    /\ UNCHANGED <<connection, schemas, handlers, _queue, _worker, workers,
                   addCalls, closes>>

\* `await handler(job)` resumes: the processor returns, or throws what the
\* handler's promise was rejected with.  The activation is over.
ProcessorResumes(d) ==
    /\ d \in 1..Len(dispatches)
    /\ dispatches[d].promise # "pending"
    /\ LET f == workers[dispatches[d].worker].processor
           name == dispatches[d].job.name IN
       last' = IF dispatches[d].promise = "fulfilled"
               THEN Ok(f, "processor", name)
               ELSE Outcome(f, "processor", name, "rejected", "HandlerError",
                            "HandlerError")
    /\ dispatches' = Remove(dispatches, d)
    /\ UNCHANGED <<connection, schemas, handlers, _queue, _worker, workers,
                   addCalls, closes>>

\* ----------------------------------------------------------------- close
\* Worker.close() / Queue.close() begin closing the handle and return a promise.
WorkerClose(w) ==
    [workers EXCEPT ![w].state = IF @ = "closed" THEN @ ELSE "closing",
                    ![w].closeCalls = @ + 1]

QueueClose(f) ==
    [_queue EXCEPT ![f].state = IF @ = "closed" THEN @ ELSE "closing",
                   ![f].closeCalls = @ + 1]

\* close() that starts both closes at once (Promise.all) instead of awaiting
\* the worker first.
CloseInParallel(f) ==
    /\ Len(closes) < MaxCloses
    /\ IF _worker[f] # 0
       THEN /\ workers' = WorkerClose(_worker[f])
            /\ closes' = Append(closes,
                    [f |-> f, worker |-> _worker[f], pc |-> "awaitWorker"])
       ELSE /\ closes' = Append(closes,
                    [f |-> f, worker |-> 0, pc |-> "awaitQueue"])
            /\ UNCHANGED workers
    /\ _queue' = QueueClose(f)
    /\ last' = Outcome(f, "close", "", "pending", "", "")
    /\ UNCHANGED <<connection, schemas, handlers, _worker, addCalls,
                   dispatches>>

\* close() up to its first await.
Close(f) ==
    /\ Len(closes) < MaxCloses
    /\ IF _worker[f] # 0
       THEN /\ workers' = WorkerClose(_worker[f])
            /\ closes' = Append(closes,
                    [f |-> f, worker |-> _worker[f], pc |-> "awaitWorker"])
            /\ UNCHANGED _queue
       ELSE /\ _queue' = QueueClose(f)
            /\ closes' = Append(closes,
                    [f |-> f, worker |-> 0, pc |-> "awaitQueue"])
            /\ UNCHANGED workers
    /\ last' = Outcome(f, "close", "", "pending", "", "")
    /\ UNCHANGED <<connection, schemas, handlers, _worker, addCalls,
                   dispatches>>

\* close() with the queue's close in a `finally`: it is called even when the
\* worker's close failed.
WorkerCloseSettlesFinally(c, fulfilled) ==
    /\ c \in 1..Len(closes)
    /\ closes[c].pc = "awaitWorker"
    /\ LET f == closes[c].f
           w == closes[c].worker IN
       IF fulfilled
       THEN /\ workers' = [workers EXCEPT ![w].state = "closed",
                                          ![w].running = FALSE]
            /\ _queue' = QueueClose(f)
            /\ closes' = [closes EXCEPT ![c].pc = "awaitQueue"]
            /\ last' = Outcome(f, "close", "", "pending", "", "")
       ELSE /\ closes' = [closes EXCEPT ![c].pc = "failed"]
            /\ _queue' = QueueClose(f)
            /\ last' = Outcome(f, "close", "", "rejected", "WorkerCloseError",
                               "WorkerCloseError")
            /\ UNCHANGED workers
    /\ UNCHANGED <<connection, schemas, handlers, _worker, addCalls,
                   dispatches>>

\* `await this._worker.close()` settles: on success close() goes on to
\* `this._queue.close()`, on failure close() rejects with the same error.
WorkerCloseSettles(c, fulfilled) ==
    /\ c \in 1..Len(closes)
    /\ closes[c].pc = "awaitWorker"
    /\ LET f == closes[c].f
           w == closes[c].worker IN
       IF fulfilled
       THEN /\ workers' = [workers EXCEPT ![w].state = "closed",
                                          ![w].running = FALSE]
            /\ _queue' = QueueClose(f)
            /\ closes' = [closes EXCEPT ![c].pc = "awaitQueue"]
            /\ last' = Outcome(f, "close", "", "pending", "", "")
       ELSE /\ closes' = [closes EXCEPT ![c].pc = "failed"]
            /\ last' = Outcome(f, "close", "", "rejected", "WorkerCloseError",
                               "WorkerCloseError")
            /\ UNCHANGED <<workers, _queue>>
    /\ UNCHANGED <<connection, schemas, handlers, _worker, addCalls,
                   dispatches>>

\* close() that forgets the worker handle once both handles are closed.
QueueCloseSettlesClearing(c) ==
    /\ c \in 1..Len(closes)
    /\ closes[c].pc = "awaitQueue"
    /\ _queue' = [_queue EXCEPT ![closes[c].f].state = "closed"]
    /\ _worker' = [_worker EXCEPT ![closes[c].f] = 0]
    /\ closes' = [closes EXCEPT ![c].pc = "done"]
    /\ last' = Ok(closes[c].f, "close", "")
    /\ UNCHANGED <<connection, schemas, handlers, workers, addCalls,
                   dispatches>>

\* `await this._queue.close()` settles and close() resolves.
QueueCloseSettles(c) ==
    /\ c \in 1..Len(closes)
    /\ closes[c].pc = "awaitQueue"
    /\ _queue' = [_queue EXCEPT ![closes[c].f].state = "closed"]
    /\ closes' = [closes EXCEPT ![c].pc = "done"]
    /\ last' = Ok(closes[c].f, "close", "")
    /\ UNCHANGED <<connection, schemas, handlers, _worker, workers, addCalls,
                   dispatches>>

\* ------------------------------------------------------- specifications
AddJobStep ==
    \E f \in Facades, n \in AddJobNames, p \in Payloads, o \in JobOptionValues :
        AddJob(f, n, p, o)
RegisterHandlerStep ==
    \E f \in Facades, n \in JobNames, h \in HandlerFns : RegisterHandler(f, n, h)
\* registerHandler as a producer-side program calls it: one handler for one job
\* name.  What the Map holds matters only to the processor (NextWorker).
RegisterOneHandlerStep ==
    \E f \in Facades : RegisterHandler(f, "sendEmail", "h1")
InitWorkerStep == \E f \in Facades, o \in WorkerOptionValues : InitWorker(f, o)
StartWorkerStep == \E f \in Facades : StartWorker(f)
DeliverStep == \E w \in 1..Len(workers), j \in Jobs : Deliver(w, j)
HandlerSettlesStep ==
    \E d \in 1..Len(dispatches), b \in BOOLEAN : HandlerSettles(d, b)
ProcessorResumesStep == \E d \in 1..Len(dispatches) : ProcessorResumes(d)
CloseStep == \E f \in Facades : Close(f)
WorkerCloseSettlesStep ==
    \E c \in 1..Len(closes), b \in BOOLEAN : WorkerCloseSettles(c, b)
QueueCloseSettlesStep == \E c \in 1..Len(closes) : QueueCloseSettles(c)

\* The facade's operations and the settling of the promises close() awaits.
Next ==
    \/ AddJobStep
    \/ RegisterOneHandlerStep
    \/ InitWorkerStep
    \/ StartWorkerStep
    \/ CloseStep
    \/ WorkerCloseSettlesStep
    \/ QueueCloseSettlesStep

Spec == Init /\ [][Next]_vars

\* The consumer side: handlers, the worker, and the jobs the engine delivers.
NextWorker ==
    \/ RegisterHandlerStep
    \/ InitWorkerStep
    \/ StartWorkerStep
    \/ DeliverStep
    \/ HandlerSettlesStep
    \/ ProcessorResumesStep

SpecWorker == Init /\ [][NextWorker]_vars

\* createQueueHelper(connection) returns a factory, and every facade the
\* factory makes is createQueue(queueName, schemas, connection, queueOptions)
\* with that one connection and the queueOptions the helper was given: here
\* none, so each queue handle is on the shared connection.
HelperFacadeIds == {1, 2}
InitHelper ==
    /\ Construct(HelperFacadeIds)
    /\ \A f \in HelperFacadeIds :
          _queue[f].opts = Spread([connection |-> connection[f]], NoOptions)

\* What a consumer program does with each facade of the factory: it registers
\* a handler for sendEmail, creates the worker with the default options, and
\* the engine delivers sendEmail jobs to it.
RegisterEmailHandlerStep ==
    \E f \in Facades, h \in HandlerFns : RegisterHandler(f, "sendEmail", h)
InitDefaultWorkerStep == \E f \in Facades : InitWorker(f, NoOptions)
DeliverEmailStep ==
    \E w \in 1..Len(workers) :
        Deliver(w, [name |-> "sendEmail", data |-> [to |-> "test@example.com"]])

NextHelper ==
    \/ RegisterEmailHandlerStep
    \/ InitDefaultWorkerStep
    \/ StartWorkerStep
    \/ DeliverEmailStep
    \/ CloseStep
    \/ WorkerCloseSettlesStep
    \/ QueueCloseSettlesStep

SpecHelper == InitHelper /\ [][NextHelper]_vars

\* ============================================================ properties
\* The facade whose processor a worker handle runs.
FacadeOf(w) == workers[w].processor

\* ---------------------------------------------------------------- addJob
\* C1: for a job name with a schema and a payload that violates it, addJob is
\* rejected with the schema's validation error and makes no Queue.add call,
\* whatever facade operations came before.
C1_InvalidPayloadRejectedBeforeEnqueue ==
    [][\A f \in Facades, p \in Payloads :
          (/\ last'.op = "addJob"
           /\ last'.f = f
           /\ last'.name \in DOMAIN schemas[f]
           /\ ~ParseOk(schemas[f][last'.name], p)
           /\ \E o \in JobOptionValues : AddJob(f, last'.name, p, o))
          => /\ last'.status = "rejected"
             /\ last'.error = "ZodError"
             /\ addCalls' = addCalls
             /\ _queue' = _queue]_vars

\* An invalid payload was just rejected on a facade that already enqueued a
\* job, registered a handler and created its worker.
C1_Witness ==
    \E f \in Facades :
        /\ last.f = f /\ last.op = "addJob"
        /\ last.name \in DOMAIN schemas[f]
        /\ last.status = "rejected" /\ last.error = "ZodError"
        /\ Len(addCalls[f]) > 0
        /\ handlers[f] # EmptyMap
        /\ _worker[f] # 0

\* C2: for a job name with a schema and a payload that satisfies it, addJob
\* does not fail and makes exactly one Queue.add call: the given name, the
\* output of the schema's parse (not the caller's object) and the caller's job
\* options as given.
C2_ValidPayloadEnqueuedOnceNormalized ==
    [][\A f \in Facades, p \in Payloads, o \in JobOptionValues :
          LET n == last'.name IN
          (/\ last'.op = "addJob"
           /\ last'.f = f
           /\ n \in DOMAIN schemas[f]
           /\ ParseOk(schemas[f][n], p)
           /\ AddJob(f, n, p, o))
          => /\ last'.status = "ok"
             /\ Len(addCalls'[f]) = Len(addCalls[f]) + 1
             /\ SubSeq(addCalls'[f], 1, Len(addCalls[f])) = addCalls[f]
             /\ LET call == addCalls'[f][Len(addCalls'[f])] IN
                /\ call.name = n
                /\ call.data = ParseData(schemas[f][n], p)
                /\ DOMAIN call.data = {schemas[f][n].field}
                /\ call.opts = o
             /\ \A g \in Facades \ {f} : addCalls'[g] = addCalls[g]]_vars

\* A job was just enqueued with job options, after an earlier rejection left
\* the log empty or an earlier job filled it.
C2_Witness ==
    \E f \in Facades :
        /\ last.f = f /\ last.op = "addJob" /\ last.status = "ok"
        /\ Len(addCalls[f]) > 0
        /\ addCalls[f][Len(addCalls[f])].name = last.name
        /\ addCalls[f][Len(addCalls[f])].opts = "delayed"

\* C3 as stated: for a job name that is no key of the schema map, addJob fails
\* with a dedicated UnknownJobType error and makes no Queue.add call.
C3_UnknownNameRaisesUnknownJobType ==
    [][\A f \in Facades :
          (/\ last'.op = "addJob"
           /\ last'.name \notin DOMAIN schemas[f]
           /\ \E p \in Payloads, o \in JobOptionValues : AddJob(f, last'.name, p, o))
          => /\ last'.status = "rejected"
             /\ last'.error = "UnknownJobType"
             /\ addCalls' = addCalls]_vars

\* What addJob does for C3's names: it fails with the TypeError of calling
\* parse on a missing schema, which is not a validation error, and makes no
\* Queue.add call.
C3_UnknownNameRaisesTypeError ==
    [][\A f \in Facades :
          (/\ last'.op = "addJob"
           /\ last'.name \notin DOMAIN schemas[f]
           /\ \E p \in Payloads, o \in JobOptionValues : AddJob(f, last'.name, p, o))
          => /\ last'.status = "rejected"
             /\ last'.error = "TypeError"
             /\ last'.error # "ZodError"
             /\ addCalls' = addCalls
             /\ _queue' = _queue]_vars

\* addJob under a name without a schema was just rejected, on a facade whose
\* queue already took a job.
C3_Witness ==
    \E f \in Facades :
        /\ last.f = f /\ last.op = "addJob"
        /\ last.name \notin DOMAIN schemas[f]
        /\ last.status = "rejected" /\ last.error = "TypeError"
        /\ Len(addCalls[f]) > 0

\* ------------------------------------------------------------- processor
\* C4 as stated: the processor calls a handler for a delivered job only if the
\* job's name has a schema and the job's data passes it.
C4_HandlerOnlyForValidatedJobs ==
    \A d \in 1..Len(dispatches) :
        dispatches[d].calls # <<>> =>
            LET f == FacadeOf(dispatches[d].worker)
                job == dispatches[d].job IN
            /\ job.name \in DOMAIN schemas[f]
            /\ ParseOk(schemas[f][job.name], job.data)

\* C5: a delivered job whose name has no handler in the Map makes the processor
\* fail with 'No handler registered for job type: <name>' and no handler of any
\* name is called for it.
C5_NoHandlerFailsNamingTheJob ==
    [][\A w \in 1..Len(workers), job \in Jobs :
          (Deliver(w, job) /\ job.name \notin DOMAIN handlers[FacadeOf(w)])
          => /\ last'.op = "processor"
             /\ last'.status = "rejected"
             /\ last'.error = "Error"
             /\ last'.message = "No handler registered for job type: " \o job.name
             /\ dispatches' = dispatches]_vars

\* The processor just failed for a job without a handler while a handler is
\* registered under another name.
C5_Witness ==
    \E f \in Facades :
        /\ last.f = f /\ last.op = "processor" /\ last.status = "rejected"
        /\ last.message = "No handler registered for job type: processImage"
        /\ "processImage" \notin DOMAIN handlers[f]
        /\ handlers[f] # EmptyMap
        /\ \A d \in 1..Len(dispatches) : dispatches[d].job.name # "processImage"

\* The handler calls of the activations in flight.
Calls(ds) == [d \in 1..Len(ds) |-> ds[d].calls]

\* C6: with a handler registered under n and the worker running, a delivered
\* job named n with a valid payload makes the processor call that handler
\* exactly once, with the job record, and no handler registered under another
\* name; the activation makes no further call while it waits or when it ends.
C6_RegisteredHandlerCalledOnce ==
    [][/\ \A w \in 1..Len(workers), job \in Jobs :
            LET f == FacadeOf(w) IN
            (/\ Deliver(w, job)
             /\ job.name \in DOMAIN handlers[f]
             /\ job.name \in DOMAIN schemas[f]
             /\ ParseOk(schemas[f][job.name], job.data))
            => /\ Len(dispatches') = Len(dispatches) + 1
               /\ SubSeq(dispatches', 1, Len(dispatches)) = dispatches
               /\ dispatches'[Len(dispatches')].job = job
               /\ dispatches'[Len(dispatches')].calls =
                      <<[handler |-> handlers[f][job.name], job |-> job]>>
       /\ \A d \in 1..Len(dispatches), b \in BOOLEAN :
            HandlerSettles(d, b) => Calls(dispatches') = Calls(dispatches)
       /\ \A d \in 1..Len(dispatches) :
            ProcessorResumes(d) => Calls(dispatches') = Remove(Calls(dispatches), d)
      ]_vars

\* A valid sendEmail job is with handler h2 while processImage has handler h1.
C6_Witness ==
    \E d \in 1..Len(dispatches) :
        LET f == FacadeOf(dispatches[d].worker) IN
        /\ dispatches[d].job = [name |-> "sendEmail", data |-> [to |-> "test@example.com"]]
        /\ dispatches[d].calls = <<[handler |-> "h2", job |-> dispatches[d].job]>>
        /\ "processImage" \in DOMAIN handlers[f]
        /\ handlers[f]["processImage"] = "h1"
        /\ handlers[f]["sendEmail"] = "h2"
        /\ workers[dispatches[d].worker].running

\* ------------------------------------------------------------- lifecycle
\* C7 as stated: a startWorker() call that follows a startWorker() call on the
\* same facade fails with 'Worker already started' and has no side effect.
C7_SecondStartWorkerAlreadyStarted ==
    [][\A f \in Facades :
          (StartWorker(f) /\ last.op = "startWorker" /\ last.f = f)
          => /\ last'.status = "rejected"
             /\ last'.message = "Worker already started"
             /\ workers' = workers
             /\ _worker' = _worker]_vars

\* C8 as stated: the worker accessor is null until a startWorker() call has
\* succeeded, and startWorker() on a freshly constructed facade succeeds and
\* leaves the accessor holding a worker handle.
C8_WorkerNullUntilStartWorker ==
    [][\A f \in Facades :
          /\ (_worker[f] = 0 /\ _worker'[f] # 0)
                => (StartWorker(f) /\ last'.status # "rejected")
          /\ (StartWorker(f) /\ last.op = "new")
                => (last'.status # "rejected" /\ _worker'[f] # 0)]_vars

\* C9: close() closes the worker handle, when there is one, before the queue
\* handle: Queue.close is called only by a close() that had no worker handle or
\* whose Worker.close has completed, and a close() that found no worker handle
\* calls no Worker.close.
C9_WorkerClosedBeforeQueue ==
    /\ \A c \in 1..Len(closes) :
          (closes[c].worker # 0 /\ closes[c].pc \in {"awaitQueue", "done"})
              => workers[closes[c].worker].state = "closed"
    /\ \A f \in Facades :
          _queue[f].closeCalls =
              Cardinality({c \in 1..Len(closes) :
                  closes[c].f = f /\ closes[c].pc \in {"awaitQueue", "done"}})
    /\ \A w \in 1..Len(workers) :
          workers[w].closeCalls =
              Cardinality({c \in 1..Len(closes) : closes[c].worker = w})
    /\ \A c \in 1..Len(closes) :
          closes[c].pc = "awaitWorker" => closes[c].worker # 0

\* A close() that found a worker handle has seen it closed and is now closing
\* the queue handle.
C9_Witness ==
    \E c \in 1..Len(closes) :
        /\ closes[c].worker # 0
        /\ closes[c].pc = "awaitQueue"
        /\ workers[closes[c].worker].state = "closed"
        /\ _queue[closes[c].f].state = "closing"

\* C10 as stated: whatever workerOptions is, the worker handle has the queue
\* handle's name and connection, and the facade's processor as its callback.
C10_WorkerBoundLikeQueue ==
    \A f \in Facades :
        _worker[f] # 0 =>
            LET w == workers[_worker[f]] IN
            /\ w.name = _queue[f].name
            /\ w.opts.connection = _queue[f].opts.connection
            /\ w.processor = f

\* C10 amended: the worker handle has the queue handle's name and the facade's
\* processor as its callback; its connection is workerOptions.connection when
\* that is given and the constructor's connection otherwise, so it is the
\* queue handle's connection when neither options object names a connection.
C10_WorkerBoundUnlessOverridden ==
    [][\A f \in Facades, o \in WorkerOptionValues :
          (InitWorker(f, o) /\ _worker[f] = 0)
          => LET w == workers'[_worker'[f]] IN
             /\ w.name = _queue[f].name
             /\ w.processor = f
             /\ w.opts.connection = IF "connection" \in DOMAIN o
                                    THEN o.connection
                                    ELSE connection[f]
             /\ ("connection" \notin DOMAIN o
                   /\ _queue[f].opts.connection = connection[f])
                => w.opts.connection = _queue[f].opts.connection]_vars

\* A worker handle created with its own connection, unlike the queue handle's.
C10_Witness ==
    \E f \in Facades :
        /\ _worker[f] # 0
        /\ last.op = "initWorker" /\ last.status = "ok"
        /\ workers[_worker[f]].opts.connection = "connB"
        /\ _queue[f].opts.connection = "connA"
        /\ workers[_worker[f]].name = _queue[f].name

\* ---------------------------------------------------------- return values
\* What a call hands back: undefined, null, or a reference to a Worker handle.
Undefined == [type |-> "undefined"]
Null == [type |-> "null"]
Handle(w) == [type |-> "Worker", id |-> w]

\* get worker(): this._worker
worker(f) == IF _worker[f] = 0 THEN Null ELSE Handle(_worker[f])

\* initWorker ends with `return this._worker`, the handle it has just stored.
InitWorkerReturns(f) == worker(f)

\* startWorker has no return statement: its promise can only resolve with
\* undefined.
StartWorkerReturns(f) == Undefined

\* C11 as stated: a startWorker() call that does not fail has created the
\* facade's worker handle and returns it, the same handle the worker accessor
\* returns afterwards.
C11_StartWorkerReturnsCreatedHandle ==
    [][\A f \in Facades :
          (/\ last'.op = "startWorker" /\ last'.f = f
           /\ StartWorker(f)
           /\ last'.status # "rejected")
          => /\ StartWorkerReturns(f)' = worker(f)'
             /\ _worker[f] = 0
             /\ _worker'[f] # 0]_vars

\* The handle comes from initWorker: a successful initWorker() creates the
\* worker handle and returns it, the same handle the worker accessor returns
\* afterwards, and a startWorker() that follows returns undefined.
C11_InitWorkerReturnsCreatedHandle ==
    [][\A f \in Facades :
          /\ (/\ last'.op = "initWorker" /\ last'.f = f /\ last'.status = "ok"
              /\ \E o \in WorkerOptionValues : InitWorker(f, o))
             => /\ _worker[f] = 0
                /\ InitWorkerReturns(f)' = Handle(Len(workers'))
                /\ InitWorkerReturns(f)' = worker(f)'
          /\ (/\ last'.op = "startWorker" /\ last'.f = f
              /\ StartWorker(f))
             => /\ StartWorkerReturns(f)' = Undefined
                /\ worker(f)' = worker(f)]_vars

\* ------------------------------------------------------- handler registry
\* C12: registerHandler(n, h) never fails and leaves h as the handler of n,
\* replacing the one n had, with every other name's handler as it was; only
\* registerHandler changes the Map; and a delivered job named n is given to
\* the handler the Map holds for n at that moment, which is therefore the one
\* registered last, and to no other.
C12_LastRegistrationWins ==
    [][/\ \A f \in Facades, h \in HandlerFns :
            LET n == last'.name IN
            (/\ last'.op = "registerHandler" /\ last'.f = f
             /\ RegisterHandler(f, n, h))
            => /\ last'.status = "ok"
               /\ handlers'[f][n] = h
               /\ DOMAIN handlers'[f] = DOMAIN handlers[f] \cup {n}
               /\ \A m \in DOMAIN handlers[f] \ {n} :
                      handlers'[f][m] = handlers[f][m]
               /\ \A g \in Facades \ {f} : handlers'[g] = handlers[g]
       /\ handlers' # handlers
            => \E f \in Facades, n \in JobNames, h \in HandlerFns :
                   RegisterHandler(f, n, h)
       /\ \A w \in 1..Len(workers), job \in Jobs :
            LET f == FacadeOf(w) IN
            (/\ last'.op = "processor"
             /\ job.name \in DOMAIN handlers[f]
             /\ Deliver(w, job))
            => dispatches'[Len(dispatches')].calls =
                   <<[handler |-> handlers'[f][job.name], job |-> job]>>
      ]_vars

\* sendEmail has just been registered again, with h2: a job delivered earlier
\* is still with h1, the handler it had then, and processImage keeps h1.
C12_Witness ==
    \E f \in Facades, d \in 1..Len(dispatches) :
        /\ last.op = "registerHandler" /\ last.f = f /\ last.name = "sendEmail"
        /\ last.status = "ok"
        /\ handlers[f]["sendEmail"] = "h2"
        /\ FacadeOf(dispatches[d].worker) = f
        /\ dispatches[d].job.name = "sendEmail"
        /\ dispatches[d].calls[1].handler = "h1"
        /\ "processImage" \in DOMAIN handlers[f]
        /\ handlers[f]["processImage"] = "h1"

\* ------------------------------------------------- the awaited handler
\* C13: when the promise of the handler called for a delivered job is rejected,
\* the processor's own promise is rejected with the handler's error, for that
\* job, so the engine sees the callback fail.
C13_HandlerFailurePropagates ==
    [][\A d \in 1..Len(dispatches) :
          (/\ last'.op = "processor"
           /\ dispatches[d].promise = "rejected"
           /\ ProcessorResumes(d))
          => /\ last'.status = "rejected"
             /\ last'.error = "HandlerError"
             /\ last'.message = "HandlerError"
             /\ last'.f = FacadeOf(dispatches[d].worker)
             /\ last'.name = dispatches[d].job.name]_vars

\* The processor has just failed with the error of the handler registered for
\* the job's name; the activation is over.
C13_Witness ==
    \E f \in Facades :
        /\ last.f = f /\ last.op = "processor"
        /\ last.status = "rejected" /\ last.error = "HandlerError"
        /\ last.name \in DOMAIN handlers[f]
        /\ dispatches = <<>>
        /\ _worker[f] # 0 /\ workers[_worker[f]].running

\* C14: the processor's promise stays pending from the moment it calls the
\* handler until the handler's promise has settled: the delivery that calls a
\* handler leaves the processor pending on a pending promise, an activation
\* ends only after its handler's promise settled, and the processor reports
\* success only for an activation whose handler's promise was fulfilled.
C14_ProcessorAwaitsHandler ==
    [][/\ \A w \in 1..Len(workers), job \in Jobs :
            (/\ last'.op = "processor"
             /\ job.name \in DOMAIN handlers[FacadeOf(w)]
             /\ Deliver(w, job))
            => /\ last'.status = "pending"
               /\ dispatches'[Len(dispatches')].promise = "pending"
       /\ \A d \in 1..Len(dispatches) :
            (Len(dispatches') < Len(dispatches)
               /\ dispatches' = Remove(dispatches, d))
            => /\ dispatches[d].promise # "pending"
               /\ last'.op = "processor"
               /\ last'.status =
                      IF dispatches[d].promise = "fulfilled" THEN "ok" ELSE "rejected"
       /\ (/\ last'.op = "processor" /\ last'.status = "ok"
           /\ Len(dispatches') # Len(dispatches))
            => \E d \in 1..Len(dispatches) :
                   /\ dispatches[d].promise = "fulfilled"
                   /\ dispatches' = Remove(dispatches, d)
      ]_vars

\* The processor is pending on the promise of the handler it called, which has
\* not settled yet.
C14_Witness ==
    \E d \in 1..Len(dispatches) :
        /\ last.op = "processor" /\ last.status = "pending"
        /\ last.name = dispatches[d].job.name
        /\ Len(dispatches[d].calls) = 1
        /\ dispatches[d].promise = "pending"

C16_LookupSeesOldOrNewHandler ==
    [][/\ \A f \in Facades, h \in HandlerFns :
            LET n == last'.name IN
            (/\ last'.op = "registerHandler" /\ last'.f = f
             /\ RegisterHandler(f, n, h))
            => /\ dispatches' = dispatches
               /\ n \in DOMAIN handlers'[f]
               /\ handlers'[f][n] = h
               /\ workers' = workers
       /\ \A w \in 1..Len(workers), job \in Jobs :
            LET f == FacadeOf(w) IN
            (last'.op = "processor" /\ Deliver(w, job))
            => IF job.name \in DOMAIN handlers[f]
               THEN /\ handlers[f][job.name] \in HandlerFns
                    /\ dispatches' = Append(dispatches,
                           [worker |-> w, job |-> job,
                            calls |-> <<[handler |-> handlers[f][job.name],
                                         job |-> job]>>,
                            promise |-> "pending"])
               ELSE /\ dispatches' = dispatches
                    /\ last'.status = "rejected"
       /\ \A d \in 1..Len(dispatches') :
            dispatches'[d].calls[1].handler \in HandlerFns
      ]_vars

\* processImage has just been given handler h1 on a facade whose worker is
\* running, while a processImage job delivered earlier is still with h2.
C16_Witness ==
    \E f \in Facades, d \in 1..Len(dispatches) :
        /\ last.op = "registerHandler" /\ last.f = f
        /\ last.name = "processImage"
        /\ _worker[f] # 0 /\ workers[_worker[f]].running
        /\ dispatches[d].worker = _worker[f]
        /\ dispatches[d].job.name = "processImage"
        /\ dispatches[d].promise = "pending"
        /\ dispatches[d].calls[1].handler = "h2"
        /\ handlers[f]["processImage"] = "h1"

\* ------------------------------------------------------ several facades
\* C17: every step of a facade f (a registerHandler, initWorker, startWorker
\* or close call on f, the settling of what f's close() awaits, a job
\* delivered to f's worker) leaves every other facade's handler Map, worker
\* handle (none, or the same Worker in the same state) and queue handle as
\* they were; each worker handle belongs to the one facade that created it,
\* and a job delivered to it goes to the handler in that facade's Map.
C17_FacadesIsolated ==
    [][/\ \A g \in Facades :
            (\/ handlers'[g] # handlers[g]
             \/ _worker'[g] # _worker[g]
             \/ worker(g)' # worker(g)
             \/ _worker[g] # 0 /\ workers'[_worker[g]] # workers[_worker[g]]
             \/ _queue'[g] # _queue[g])
            => last'.f = g
       /\ \A w \in 1..Len(workers') :
            /\ _worker'[workers'[w].processor] = w
            /\ \A g \in Facades \ {workers'[w].processor} : _worker'[g] # w
       /\ \A w \in 1..Len(workers) :
            LET job == [name |-> "sendEmail", data |-> [to |-> "test@example.com"]]
                f == FacadeOf(w) IN
            (/\ last'.op = "processor" /\ last'.status = "pending"
             /\ Deliver(w, job))
            => /\ _worker[f] = w
               /\ dispatches'[Len(dispatches')].calls =
                      <<[handler |-> handlers[f]["sendEmail"], job |-> job]>>
      ]_vars

\* Two facades of one factory on the same queue name: the first has handler
\* h1 and a closed worker, the second has handler h2 and its own worker, open
\* and running, with a job in flight that went to h2.
C17_Witness ==
    /\ Facades = {1, 2}
    /\ _queue[1].name = _queue[2].name
    /\ _queue[1].opts.connection = _queue[2].opts.connection
    /\ handlers[1] # EmptyMap /\ handlers[1]["sendEmail"] = "h1"
    /\ handlers[2] # EmptyMap /\ handlers[2]["sendEmail"] = "h2"
    /\ _worker[1] # 0 /\ workers[_worker[1]].state = "closed"
    /\ _worker[2] # 0 /\ _worker[2] # _worker[1]
    /\ workers[_worker[2]].state = "open" /\ workers[_worker[2]].running
    /\ \E d \in 1..Len(dispatches) :
          /\ dispatches[d].worker = _worker[2]
          /\ dispatches[d].calls[1].handler = "h2"

\* ------------------------------------------------------ autorun disabled
\* A worker handle that is running after the step and was not before it.
StartsRunning(w) ==
    /\ workers'[w].running
    /\ ~(w \in 1..Len(workers) /\ workers[w].running)

\* C18 as stated: whatever workerOptions is, a worker starts taking jobs only
\* by a startWorker() call, so no job reaches the processor between
\* initWorker() and startWorker().
C18_NoDeliveryBeforeStartWorker ==
    [][/\ \A w \in 1..Len(workers') :
            StartsRunning(w) => last'.op = "startWorker"
       /\ \A w \in 1..Len(workers), job \in Jobs :
            (last'.op = "processor" /\ Deliver(w, job)) => workers[w].running
      ]_vars

\* C18 amended: initWorker(workerOptions) creates the worker stopped unless
\* workerOptions sets autorun to true, in which case it is running from its
\* creation; a worker created stopped starts taking jobs only by a
\* startWorker() call, and jobs reach the processor of a running worker only.
C18_NoDeliveryBeforeStartUnlessAutorun ==
    [][/\ \A f \in Facades, o \in WorkerOptionValues :
            (/\ last'.op = "initWorker" /\ last'.f = f /\ last'.status = "ok"
             /\ InitWorker(f, o))
            => workers'[_worker'[f]].running =
                   ("autorun" \in DOMAIN o /\ o.autorun)
       /\ \A w \in 1..Len(workers') :
            StartsRunning(w)
            => \/ last'.op = "startWorker" /\ w \in 1..Len(workers)
               \/ /\ last'.op = "initWorker"
                  /\ w = Len(workers') /\ w \notin 1..Len(workers)
                  /\ "autorun" \in DOMAIN workers'[w].opts
                  /\ workers'[w].opts.autorun
       /\ \A w \in 1..Len(workers), job \in Jobs :
            (last'.op = "processor" /\ Deliver(w, job)) => workers[w].running
      ]_vars

\* A worker has just been created with options that do not mention autorun, on
\* a facade that has a handler: it is stopped and no job is with a handler.
C18_Witness ==
    \E f \in Facades :
        /\ last.op = "initWorker" /\ last.f = f /\ last.status = "ok"
        /\ handlers[f] # EmptyMap
        /\ workers[_worker[f]].opts.connection = "connB"
        /\ ~workers[_worker[f]].opts.autorun
        /\ ~workers[_worker[f]].running
        /\ dispatches = <<>>

\* ------------------------------------------------------- close() failing
\* C19: when the worker handle's close fails, close() is rejected with that
\* error and goes no further: the queue handle is not touched then or later by
\* that close(), Queue.close is called only by a close() that is not failing,
\* and while every close() of a facade has failed or still waits for the
\* worker, its queue handle is open with no close call made on it.
C19_WorkerCloseFailureSkipsQueueClose ==
    [][/\ \A c \in 1..Len(closes) :
            (/\ last'.op = "close"
             /\ closes[c].pc = "awaitWorker"
             /\ WorkerCloseSettles(c, FALSE))
            => /\ last'.status = "rejected"
               /\ last'.error = "WorkerCloseError"
               /\ last'.message = "WorkerCloseError"
               /\ last'.f = closes[c].f
               /\ closes'[c].pc = "failed"
               /\ _queue' = _queue
       /\ \A c \in 1..Len(closes) :
            closes[c].pc = "failed" => closes'[c] = closes[c]
       /\ \A f \in Facades :
            _queue'[f].closeCalls # _queue[f].closeCalls
            => last'.op = "close" /\ last'.f = f /\ last'.status = "pending"
       /\ \A f \in Facades :
            (\A c \in 1..Len(closes') :
                closes'[c].f = f => closes'[c].pc \in {"awaitWorker", "failed"})
            => /\ _queue'[f].state = "open"
               /\ _queue'[f].closeCalls = 0
      ]_vars

\* close() has just failed with the error of the worker handle's close: the
\* worker handle took the close call and the queue handle is open, untouched.
C19_Witness ==
    \E c \in 1..Len(closes) :
        LET f == closes[c].f IN
        /\ closes[c].pc = "failed"
        /\ last.op = "close" /\ last.f = f
        /\ last.status = "rejected" /\ last.error = "WorkerCloseError"
        /\ workers[closes[c].worker].closeCalls = 1
        /\ _queue[f].state = "open"
        /\ _queue[f].closeCalls = 0

\* --------------------------------------------------------- after close()
\* C20: a stored worker handle is never cleared or replaced, by close() or by
\* anything else, so the worker accessor keeps returning it after it is
\* closed; initWorker() on a facade that has a handle, closed or not, throws
\* 'Worker already started' and constructs no Worker; a facade never has more
\* than one Worker constructed for it.
C20_WorkerHandleKeptAfterClose ==
    [][/\ \A f \in Facades :
            _worker[f] # 0
            => /\ _worker'[f] = _worker[f]
               /\ worker(f)' = worker(f)
       /\ \A f \in Facades :
            (/\ last'.op = "initWorker" /\ last'.f = f
             /\ _worker[f] # 0
             /\ \E o \in WorkerOptionValues : InitWorker(f, o))
            => /\ last'.status = "thrown"
               /\ last'.error = "Error"
               /\ last'.message = "Worker already started"
               /\ workers' = workers
       /\ \A w1, w2 \in 1..Len(workers') :
            workers'[w1].processor = workers'[w2].processor => w1 = w2
      ]_vars

\* close() has completed on a facade that had a worker, and an initWorker()
\* after it has just thrown: the accessor still returns the one Worker ever
\* constructed, now closed.
C20_Witness ==
    \E f \in Facades, c \in 1..Len(closes) :
        /\ closes[c].f = f /\ closes[c].pc = "done" /\ closes[c].worker # 0
        /\ last.op = "initWorker" /\ last.f = f
        /\ last.status = "thrown" /\ last.message = "Worker already started"
        /\ worker(f) = Handle(closes[c].worker)
        /\ workers[_worker[f]].state = "closed"
        /\ _queue[f].state = "closed"
        /\ Len(workers) = 1

====
